---- MODULE Spec2Model ----
(***************************************************************************)
(* BBC-Weather-Automation: the sqlite store (src/src/data.py), the         *)
(* ingestion script (src/src/get.py), the delivery script                  *)
(* (src/src/send.py) and the two-thread supervisor (src/src/main.py).      *)
(*                                                                         *)
(* Specifications:                                                         *)
(*   Spec        the operations on the locations table                     *)
(*   SpecBatch   insert_or_replace_many on the hourly table, one call      *)
(*   SpecSeq     insert_or_replace_many, call after call                   *)
(*   SpecYear    extract_warning_text_date: the year                       *)
(*   SpecParse   extract_warning_text_date: the parts of the text          *)
(*   SpecWind    process_json_data: the wind speed of a report             *)
(*   SpecPage    lines 251-257 of get.main for one fetched page, which     *)
(*               get.main does not reach: line 250 raises on every pass    *)
(*   SpecWarn    data.get_future_warnings                                  *)
(*   SpecMain    the loop of get.main                                      *)
(*   SpecCadence the timing of the loop of get.main                        *)
(*   SpecSup     WeatherAutomation.start and its two threads               *)
(*   SpecQuery   data.get_future_weather and data.get_future_conditions    *)
(*   SpecSend    the loop of send.main                                     *)
(***************************************************************************)
EXTENDS Integers, Sequences, FiniteSets, TLC

VARIABLES
    db,         \* the committed content of database.db: table name -> set of rows
    last,       \* the last call made on the store, with its result
    batch,      \* SpecBatch: the last batch given to insert_or_replace_many
    step,       \* SpecPage: position in lines 251-257 for the page at hand
    page,       \* SpecPage, SpecMain: the page fetched for the location at hand
    snap,       \* SpecPage: the three data tables when the page's processing began
    verdict,    \* SpecPage, SpecMain: what last_updated_changed returned for the page
    wrote,      \* SpecPage, SpecMain: the tables whose batch write committed for the page
    pc,         \* SpecMain: position in get.main
    config,     \* SpecMain: location_ids of download.json
    ids,        \* SpecMain: download_settings.location_ids of the pass
    idx,        \* SpecMain: index in ids of the location at hand
    attempts,   \* SpecMain: the local variable attempts
    requests,   \* SpecMain: rq.get calls made for the location at hand in this pass
    raises,     \* SpecMain: those of them that raised
    pauses,     \* SpecMain: time.sleep(1) calls made for the location at hand
    exc,        \* SpecMain: the request whose exception left get.main (0: none)
    passNo,     \* SpecMain: passes begun
    failed,     \* SpecMain: the kind of the failure that occurred ("" : none)
    sup,        \* SpecSup: the supervisor, its two threads and the process
    calc        \* the call at hand of a specification of one function: its
                \* inputs and, once applied, its result

storeVars == <<db, last, batch>>
pageVars  == <<step, page, snap, verdict, wrote>>
mainVars  == <<pc, config, ids, idx, attempts, requests, raises, pauses, exc,
               passNo, failed>>
vars == <<db, last, batch, step, page, snap, verdict, wrote, pc, config, ids,
          idx, attempts, requests, raises, pauses, exc, passNo, failed, sup,
          calc>>

-----------------------------------------------------------------------------
(* Bounds *)

MaxLoc == 2        \* location ids 1..MaxLoc
MaxMark == 2       \* distinct lastUpdated strings of the source
MaxInfo == 2       \* distinct (name, region, latitude, longitude) of a location

LocIds == 1..MaxLoc
Watermarks == 1..MaxMark
Infos == 1..MaxInfo

-----------------------------------------------------------------------------
(* Values *)

\* Every cell of a row and every JSON scalar is an integer; three values that
\* no field of the source takes stand for the special ones.
NULL == -1           \* Python None, SQL NULL
Missing == -2        \* a key that the JSON object does not have
Unbindable == -3     \* a JSON object or array where a scalar belongs

LOCATION_TABLE == "locations"
TIME_TABLE == "weather_times"
DAY_TABLE == "daily_conditions"
WARNING_TABLE == "warnings"
Tables == {LOCATION_TABLE, TIME_TABLE, DAY_TABLE, WARNING_TABLE}
DataTables == {TIME_TABLE, DAY_TABLE, WARNING_TABLE}

\* create_missing_tables: the number of columns of each table
Columns(table) ==
    CASE table = LOCATION_TABLE -> 6
      [] table = TIME_TABLE -> 12
      [] table = DAY_TABLE -> 10
      [] table = WARNING_TABLE -> 8

\* create_missing_tables: PRIMARY KEY(...) as column positions
PrimaryKey(table) ==
    CASE table = LOCATION_TABLE -> <<1>>
      [] table = TIME_TABLE -> <<1, 2>>
      [] table = DAY_TABLE -> <<1, 2>>
      [] table = WARNING_TABLE -> <<1, 3, 4>>

Key(table, row) ==
    [i \in 1..Len(PrimaryKey(table)) |-> row[PrimaryKey(table)[i]]]

EmptyDb == [t \in Tables |-> {}]

\* the row of the locations table
LocationRow(id, info, last_updated) == <<id, info, info, info, info, last_updated>>

HasLocation(tables, id) == \E r \in tables[LOCATION_TABLE] : r[1] = id
LocationOf(tables, id) == CHOOSE r \in tables[LOCATION_TABLE] : r[1] = id
StoredMark(tables, id) ==
    IF HasLocation(tables, id) THEN LocationOf(tables, id)[6] ELSE NULL

-----------------------------------------------------------------------------
(* sqlite: one INSERT OR REPLACE statement *)

\* sqlite3 cannot bind a dict or a list
Bindable(values) == \A i \in 1..Len(values) : values[i] # Unbindable

\* PRAGMA foreign_keys = ON, FOREIGN KEY(location_id) REFERENCES locations
ForeignKeyOk(tables, table, values) ==
    \/ table = LOCATION_TABLE
    \/ values[1] = NULL
    \/ HasLocation(tables, values[1])

\* "table T has n columns but m values were supplied", a binding error and a
\* foreign key failure each raise
StatementOk(tables, table, values) ==
    /\ Len(values) = Columns(table)
    /\ Bindable(values)
    /\ ForeignKeyOk(tables, table, values)

\* INSERT OR IGNORE: the row with the same primary key stays
InsertOrIgnoreRow(tables, table, values) ==
    [tables EXCEPT ![table] =
        IF \E r \in @ : Key(table, r) = Key(table, values)
        THEN @ ELSE @ \cup {values}]

\* REPLACE: the row with the same primary key goes, the whole new row comes
InsertOrReplaceRow(tables, table, values) ==
    [tables EXCEPT ![table] =
        {r \in @ : Key(table, r) # Key(table, values)} \cup {values}]

\* Database.__exit__ when every with-block committed whether or not it raised
Database_exit_always_commit(committed, working, exception) == working

\* Database.__exit__: commit if no error occurred; close() drops the rest
Database_exit(committed, working, exception) ==
    IF exception THEN committed ELSE working

\* insert_or_replace(table, values)
insert_or_replace(tables, table, values) ==
    LET ok == StatementOk(tables, table, values)
        working == IF ok THEN InsertOrReplaceRow(tables, table, values) ELSE tables
    IN  [ok |-> ok, ret |-> FALSE, db |-> Database_exit(tables, working, ~ok)]

\* the for loop of insert_or_replace_many from record k on, on the connection's
\* uncommitted view; stops at the first statement that raises
RECURSIVE RunBatch(_, _, _, _)
RunBatch(working, table, records, k) ==
    IF k > Len(records) THEN [ok |-> TRUE, db |-> working]
    ELSE IF ~StatementOk(working, table, records[k])
         THEN [ok |-> FALSE, db |-> working]
         ELSE RunBatch(InsertOrReplaceRow(working, table, records[k]),
                       table, records, k + 1)

\* insert_or_replace_many(table, records)
insert_or_replace_many(tables, table, records) ==
    LET run == RunBatch(tables, table, records, 1)
    IN  [ok |-> run.ok, ret |-> FALSE,
         db |-> Database_exit(tables, run.db, ~run.ok)]

-----------------------------------------------------------------------------
(* data.py: the locations table *)

\* last_updated_changed with the UPDATE left out
last_updated_changed_no_update(tables, location_id, last_updated) ==
    IF ~HasLocation(tables, location_id)
    THEN [ok |-> FALSE, ret |-> FALSE, db |-> tables]
    ELSE [ok |-> TRUE,
          ret |-> (last_updated # LocationOf(tables, location_id)[6]),
          db |-> tables]

\* last_updated_changed(location_id, last_updated); fetchone() is None for an
\* id without a row, and None[0] raises
last_updated_changed(tables, location_id, last_updated) ==
    IF ~HasLocation(tables, location_id)
    THEN [ok |-> FALSE, ret |-> FALSE, db |-> Database_exit(tables, tables, TRUE)]
    ELSE LET previous_last_updated == LocationOf(tables, location_id)[6]
             changed == last_updated # previous_last_updated
             working ==
                 IF changed
                 THEN [tables EXCEPT ![LOCATION_TABLE] =
                         {IF r[1] = location_id
                          THEN [r EXCEPT ![6] = last_updated] ELSE r : r \in @}]
                 ELSE tables
         IN  [ok |-> TRUE, ret |-> changed,
              db |-> Database_exit(tables, working, FALSE)]

\* update_location writing the whole row, watermark included, for an existing id
update_location_replace(tables, location_id, info) ==
    insert_or_replace(tables, LOCATION_TABLE, LocationRow(location_id, info, NULL))

\* update_location(location_id, name, region, latitude, longitude)
update_location(tables, location_id, info) ==
    LET exists == HasLocation(tables, location_id)
    IN  IF ~exists
        THEN insert_or_replace(tables, LOCATION_TABLE,
                               LocationRow(location_id, info, NULL))
        ELSE LET working ==
                     [tables EXCEPT ![LOCATION_TABLE] =
                         {IF r[1] = location_id
                          THEN <<r[1], info, info, info, info, r[6]>>
                          ELSE r : r \in @}]
             IN  [ok |-> TRUE, ret |-> FALSE,
                  db |-> Database_exit(tables, working, FALSE)]

-----------------------------------------------------------------------------
(* get.py: add_location_if_missing *)

\* json_data["location"]
LocationInfo(id, info) ==
    [id |-> id, name |-> info, container |-> info, latitude |-> info,
     longitude |-> info]

\* add_location_if_missing(location_info): a five-value record
add_location_if_missing(tables, location_info) ==
    LET record == <<location_info.id, location_info.name, location_info.container,
                    location_info.latitude, location_info.longitude>>
    IN  insert_or_replace(tables, LOCATION_TABLE, record)

-----------------------------------------------------------------------------
(* get.py: the fetched page and process_json_data *)

MaxDays == 2       \* forecasts (day entries) of a page
MaxWarn == 1       \* warning banners of a page

GUSTS_MPH == 40
PRESSURE_OFFSET == 1013
MAX_REQUEST_ATTEMPTS == 3

\* VISIBILITIES: the strings "Very Poor" .. "Excellent", numbered 1..6 in the
\* order of the dict, to the values 0..5 of the enum Visibility
VISIBILITIES == [s \in 1..6 |-> s - 1]

\* WARNING_LEVELS: "Yellow", "Amber", "Red", numbered 1..3, to WarningLevel 0..2
WARNING_LEVELS == [s \in 1..3 |-> s - 1]

\* strptime("%Y-%m-%d %H:%M") read as UTC: localDate is the day since the
\* epoch, timeslot the hour of an "HH:00" slot
Timestamp(localDate, timeslot) == localDate * 86400 + timeslot * 3600

ReportKeys ==
    {"localDate", "timeslot", "windSpeedMph", "gustSpeedMph", "temperatureC",
     "feelsLikeTemperatureC", "windDirection", "humidity",
     "precipitationProbabilityInPercent", "pressure", "visibility",
     "weatherType"}

DayKeys ==
    {"localDate", "maxTempC", "minTempC", "sunrise", "sunset", "uvIndex",
     "pollutionIndex", "pollenIndex"}

\* building the record of one report raises: a KeyError for a missing key or an
\* unknown visibility, a TypeError or ValueError for an object where the code
\* computes with the value
ReportRaises(report) ==
    \/ \E k \in ReportKeys : report[k] = Missing
    \/ report.localDate = Unbindable \/ report.timeslot = Unbindable
    \/ report.gustSpeedMph = Unbindable
    \/ report.pressure = Unbindable
    \/ report.visibility \notin DOMAIN VISIBILITIES

\* lines 142-144 with the gust stored only above the threshold
wind_speed_above(report) ==
    IF report.gustSpeedMph <= GUSTS_MPH
    THEN report.windSpeedMph ELSE report.gustSpeedMph

\* lines 142-144
wind_speed(report) ==
    IF report.gustSpeedMph < GUSTS_MPH
    THEN report.windSpeedMph ELSE report.gustSpeedMph

\* lines 139-153: the record of one report
WeatherRecord(location_id, offset, report) ==
    <<location_id, Timestamp(report.localDate, report.timeslot), offset,
      report.temperatureC, report.feelsLikeTemperatureC, wind_speed(report),
      report.windDirection, report.humidity,
      report.precipitationProbabilityInPercent,
      report.pressure - PRESSURE_OFFSET,
      VISIBILITIES[report.visibility], report.weatherType>>

DayRaises(day) ==
    \/ \E k \in DayKeys : day[k] = Missing
    \/ day.localDate = Unbindable

\* lines 161-168: the record of one day summary
DayRecord(location_id, offset, day) ==
    <<location_id, Timestamp(day.localDate, 0), offset, day.maxTempC,
      day.minTempC, day.sunrise, day.sunset, day.uvIndex, day.pollutionIndex,
      day.pollenIndex>>

\* weather_time_records: the reports of the forecasts from index i on, in order
RECURSIVE WeatherRecords(_, _, _, _)
WeatherRecords(location_id, offset, forecasts, i) ==
    IF i > Len(forecasts) THEN <<>>
    ELSE [k \in 1..Len(forecasts[i].reports) |->
             WeatherRecord(location_id, offset, forecasts[i].reports[k])]
         \o WeatherRecords(location_id, offset, forecasts, i + 1)

\* daily_conditions_records when the first forecast is captured like the others
DayRecords_with_today(location_id, offset, forecasts) ==
    [i \in 1..Len(forecasts) |->
        DayRecord(location_id, offset, forecasts[i].summary)]

\* daily_conditions_records: every forecast but the first (i == 0: continue)
DayRecords(location_id, offset, forecasts) ==
    [j \in 1..(Len(forecasts) - 1) |->
        DayRecord(location_id, offset, forecasts[j + 1].summary)]

\* the for loop of lines 132-169 raises before anything is written
ExtractionRaises(json_data) ==
    \/ json_data.issueDate \in {Missing, Unbindable}
    \/ \E i \in 1..Len(json_data.forecasts) :
          \/ \E k \in 1..Len(json_data.forecasts[i].reports) :
                ReportRaises(json_data.forecasts[i].reports[k])
          \/ i > 1 /\ DayRaises(json_data.forecasts[i].summary)

\* process_json_data(location_id, json_data): wrote names the tables whose
\* batch was committed
process_json_data(tables, location_id, json_data) ==
    IF ExtractionRaises(json_data)
    THEN [ok |-> FALSE, kind |-> "extraction", db |-> tables, wrote |-> {}]
    ELSE LET offset == json_data.issueDate
             t == insert_or_replace_many(tables, TIME_TABLE,
                     WeatherRecords(location_id, offset, json_data.forecasts, 1))
             d == insert_or_replace_many(t.db, DAY_TABLE,
                     DayRecords(location_id, offset, json_data.forecasts))
         IN  IF ~t.ok
             THEN [ok |-> FALSE, kind |-> "storage", db |-> t.db, wrote |-> {}]
             ELSE IF ~d.ok
             THEN [ok |-> FALSE, kind |-> "storage", db |-> d.db,
                   wrote |-> {TIME_TABLE}]
             ELSE [ok |-> TRUE, kind |-> "", db |-> d.db,
                   wrote |-> {TIME_TABLE, DAY_TABLE}]

-----------------------------------------------------------------------------
(* get.py: add_weather_warnings *)

\* A text is the sequence of its whitespace-separated parts.  A part is one of
\*   word    neither digits, nor a month name, nor digits and colons; a is
\*           GMT_WORD for "GMT" and 0 for any other word
\*   number  digits only, int(part) = a
\*   month   a name of calendar.month_name, MONTHS.index(part) + 1 = a
\*   month_comma  a month name with a comma attached ("October,")
\*   time    digits, one colon, digits ("14:00"): a the hour, b the minute
\*   colons  digits and colons otherwise ("14:00:00", "14:")
GMT_WORD == 1
Word(a) == [kind |-> "word", a |-> a, b |-> 0]
Number(n) == [kind |-> "number", a |-> n, b |-> 0]
Month(m) == [kind |-> "month", a |-> m, b |-> 0]
MonthComma(m) == [kind |-> "month_comma", a |-> m, b |-> 0]
Time(h, mi) == [kind |-> "time", a |-> h, b |-> mi]
Colons == [kind |-> "colons", a |-> 0, b |-> 0]

\* calendar: dt.date(year, month, day) and the days between two dates of a year
IsLeap(year) == (year % 4 = 0 /\ year % 100 # 0) \/ year % 400 = 0
DaysInMonth(year, month) ==
    CASE month = 2 -> IF IsLeap(year) THEN 29 ELSE 28
      [] month \in {4, 6, 9, 11} -> 30
      [] OTHER -> 31
ValidDate(year, month, day) ==
    month \in 1..12 /\ day >= 1 /\ day <= DaysInMonth(year, month)
RECURSIVE DaysBefore(_, _)
DaysBefore(year, month) ==
    IF month = 1 THEN 0
    ELSE DaysBefore(year, month - 1) + DaysInMonth(year, month - 1)
DayOfYear(year, month, day) == DaysBefore(year, month) + day

\* parts[i-1] with the token after the month name instead
PartAfter(parts, i) == parts[IF i = Len(parts) THEN 1 ELSE i + 1]

\* parts[i-1]: index -1 of a Python list is its last element
PartBefore(parts, i) == parts[IF i = 1 THEN Len(parts) ELSE i - 1]

NothingParsed ==
    [raised |-> FALSE, hour |-> NULL, minute |-> NULL, month |-> NULL,
     day |-> NULL]

\* lines 180-186: the for loop from part i on
RECURSIVE ScanParts(_, _, _)
ScanParts(parts, i, acc) ==
    IF i > Len(parts) THEN acc
    ELSE LET part == parts[i]
         IN  CASE part.kind = "colons" -> [acc EXCEPT !.raised = TRUE]
               [] part.kind = "time" ->
                    ScanParts(parts, i + 1,
                        [acc EXCEPT !.hour = part.a, !.minute = part.b])
               [] part.kind = "month" ->
                    IF PartBefore(parts, i).kind # "number"
                    THEN [acc EXCEPT !.raised = TRUE]
                    ELSE ScanParts(parts, i + 1,
                             [acc EXCEPT !.month = part.a,
                                         !.day = PartBefore(parts, i).a])
               [] OTHER -> ScanParts(parts, i + 1, acc)

\* lines 190-193 with the absolute number of days between the two dates
warning_year_absolute(current_date, month, day) ==
    LET days == DayOfYear(current_date.year, current_date.month,
                          current_date.day)
                - DayOfYear(current_date.year, month, day)
    IN  IF (IF days < 0 THEN -days ELSE days) > 180
        THEN current_date.year + 1 ELSE current_date.year

\* lines 190-193: (current_date - dt.date(current_year, month, day)).days > 180
warning_year(current_date, month, day) ==
    IF DayOfYear(current_date.year, current_date.month, current_date.day)
           - DayOfYear(current_date.year, month, day) > 180
    THEN current_date.year + 1 ELSE current_date.year

\* extract_warning_text_date raises: in the loop; in dt.date(current_year,
\* month, day) on None or on a day the month does not have; in dt.datetime on
\* None, on a day the month of the inferred year does not have, on an hour or
\* a minute out of range
DateRaises(text, current_date) ==
    LET p == ScanParts(text, 1, NothingParsed)
    IN  \/ p.raised
        \/ p.month = NULL \/ p.hour = NULL
        \/ ~ValidDate(current_date.year, p.month, p.day)
        \/ ~ValidDate(warning_year(current_date, p.month, p.day), p.month,
                      p.day)
        \/ p.hour > 23 \/ p.minute > 59

\* extract_warning_text_date(text) when dt.date.today() is current_date
extract_warning_text_date(text, current_date) ==
    LET p == ScanParts(text, 1, NothingParsed)
    IN  [year |-> warning_year(current_date, p.month, p.day),
         month |-> p.month, day |-> p.day, hour |-> p.hour,
         minute |-> p.minute]

\* sqlite3 binds a datetime as its ISO text "YYYY-MM-DD HH:MM:SS"; the cell is
\* a number that orders as those texts do
adapt_datetime(d) ==
    ((((d.year * 12 + (d.month - 1)) * 31 + (d.day - 1)) * 24 + d.hour) * 60)
        + d.minute

\* the day on which the pages of SpecPage and SpecMain are processed
PageDay == [year |-> 2024, month |-> 11, day |-> 20]

\* lines 205-217 raise for one banner
WarningRaises(div) ==
    \/ div.level \notin DOMAIN WARNING_LEVELS
    \/ DateRaises(div.issued_at, PageDay) \/ DateRaises(div.start, PageDay)
    \/ DateRaises(div.end, PageDay)

\* lines 219-220: a record of seven values
WarningRecord(location_id, div) ==
    <<location_id, WARNING_LEVELS[div.level], div.weather_type,
      adapt_datetime(extract_warning_text_date(div.issued_at, PageDay)),
      adapt_datetime(extract_warning_text_date(div.start, PageDay)),
      adapt_datetime(extract_warning_text_date(div.end, PageDay)),
      div.description>>

\* add_weather_warnings(location_id, soup); soup is the sequence of the
\* wr-c-weather-warning divs of the page
add_weather_warnings(tables, location_id, soup) ==
    IF \E k \in 1..Len(soup) : WarningRaises(soup[k])
    THEN [ok |-> FALSE, kind |-> "extraction", db |-> tables, wrote |-> {}]
    ELSE LET w == insert_or_replace_many(tables, WARNING_TABLE,
                     [k \in 1..Len(soup) |-> WarningRecord(location_id, soup[k])])
         IN  IF ~w.ok
             THEN [ok |-> FALSE, kind |-> "storage", db |-> w.db, wrote |-> {}]
             ELSE [ok |-> TRUE, kind |-> "", db |-> w.db,
                   wrote |-> {WARNING_TABLE}]

-----------------------------------------------------------------------------
(* The pages the source serves *)

Flaws ==
    {"none", "hourly_missing", "hourly_object", "daily_missing", "daily_object",
     "today_missing", "issue_date", "warning_level", "warning_date",
     "no_script"}

\* a report of day i, its values taken from the watermark w of the page
Report(i, w, flaw) ==
    [localDate |-> i, timeslot |-> 0, windSpeedMph |-> 10, gustSpeedMph |-> 20,
     temperatureC |-> CASE flaw = "hourly_missing" -> Missing
                        [] flaw = "hourly_object" -> Unbindable
                        [] OTHER -> w,
     feelsLikeTemperatureC |-> w, windDirection |-> 1, humidity |-> 50,
     precipitationProbabilityInPercent |-> 5, pressure |-> 1013 + w,
     visibility |-> 4, weatherType |-> 1]

Day(i, w, flaw) ==
    [localDate |-> i, maxTempC |-> w, minTempC |-> 0, sunrise |-> 6,
     sunset |-> 18,
     uvIndex |-> CASE flaw = "daily_missing" -> Missing
                   [] flaw = "daily_object" -> Unbindable
                   [] OTHER -> 1,
     pollutionIndex |-> NULL, pollenIndex |-> NULL]

\* "<weekday> <k> November <09:00>"; a text that is not whole lacks the time
WarningText(k, whole) ==
    <<Word(0), Number(k), Month(11)>> \o (IF whole THEN <<Time(9, 0)>> ELSE <<>>)

\* the issued-at text of a page with lastUpdated w: "... GMT" when w is 1
IssuedText(w) ==
    WarningText(w, TRUE) \o (IF w = 1 THEN <<Word(GMT_WORD)>> ELSE <<>>)

WarningDiv(k, w, flaw) ==
    [level |-> IF flaw = "warning_level" THEN 4 ELSE 1, weather_type |-> k,
     issued_at |-> IssuedText(w),
     start |-> WarningText(k, flaw # "warning_date"),
     end |-> WarningText(k + 1, TRUE), description |-> w]

\* the page of location loc with lastUpdated w: n forecasts, m banners; a flaw
\* sits in the last forecast and in the last banner, "today_missing" in the
\* summary of the first forecast
MakePage(loc, w, n, m, flaw) ==
    [location_id |-> loc,
     has_script |-> flaw # "no_script",
     json |->
        [location |-> LocationInfo(loc, 1), lastUpdated |-> w,
         issueDate |-> IF flaw = "issue_date" THEN Missing ELSE 3600,
         forecasts |->
            [i \in 1..n |->
                [reports |-> <<Report(i, w, IF i = n THEN flaw ELSE "none")>>,
                 summary |->
                    Day(i, w, CASE flaw = "today_missing" ->
                                     IF i = 1 THEN "daily_missing" ELSE "none"
                                [] i = n -> flaw
                                [] OTHER -> "none")]]],
     soup |-> [k \in 1..m |-> WarningDiv(k, w, IF k = m THEN flaw ELSE "none")]]

PagesOf(loc) ==
    {MakePage(loc, w, n, m, flaw) :
        w \in Watermarks, n \in 1..MaxDays, m \in 0..MaxWarn, flaw \in Flaws}

NoPage == MakePage(0, 0, 0, 0, "none")

\* a record that the code turns into a row, a banner, or the issue date that
\* goes into every row, is malformed
ReportMalformed(report) ==
    \/ \E k \in ReportKeys : report[k] \in {Missing, Unbindable}
    \/ report.visibility \notin DOMAIN VISIBILITIES
DayMalformed(day) == \E k \in DayKeys : day[k] \in {Missing, Unbindable}
PageMalformed(p) ==
    \/ p.json.issueDate \in {Missing, Unbindable}
    \/ \E i \in 1..Len(p.json.forecasts) :
          \/ \E k \in 1..Len(p.json.forecasts[i].reports) :
                ReportMalformed(p.json.forecasts[i].reports[k])
          \/ i > 1 /\ DayMalformed(p.json.forecasts[i].summary)
    \/ \E k \in 1..Len(p.soup) : WarningRaises(p.soup[k])

-----------------------------------------------------------------------------
(* Spec: the operations on the locations table, called in any order *)

NoCall == [op |-> "none", id |-> 0, arg |-> 0, ok |-> TRUE, ret |-> FALSE,
           existed |-> FALSE, again |-> FALSE]

\* the record of a call: existed, whether the id had a row before it; again,
\* whether the call before it was the same one and returned True
Call(op, id, arg, r) ==
    [op |-> op, id |-> id, arg |-> arg, ok |-> r.ok, ret |-> r.ret,
     existed |-> HasLocation(db, id),
     again |-> (last.op = op /\ last.id = id /\ last.arg = arg /\ last.ok
                /\ last.ret)]

InitStore == db = EmptyDb /\ last = NoCall /\ batch = <<>>
InitPage ==
    /\ step = "idle" /\ page = NoPage /\ snap = EmptyDb
    /\ verdict = "none" /\ wrote = {}
InitMain ==
    /\ pc = "start" /\ config = <<>> /\ ids = <<>> /\ idx = 0 /\ attempts = 0
    /\ requests = 0 /\ raises = 0 /\ pauses = 0 /\ exc = 0 /\ passNo = 0
    /\ failed = ""
InitSup ==
    sup = [main |-> "idle", get |-> "unstarted", send |-> "unstarted",
           exception |-> "None", status |-> NULL, getPasses |-> 0,
           sendPasses |-> 0]

NoCalc == [op |-> "none"]
InitCalc == calc = NoCalc

Init == InitStore /\ InitPage /\ InitMain /\ InitSup /\ InitCalc

UpdateLocation ==
    \E id \in LocIds, info \in Infos :
        LET r == update_location(db, id, info)
        IN  /\ db' = r.db
            /\ last' = Call("update_location", id, info, r)
            /\ UNCHANGED <<batch, pageVars, mainVars, sup, calc>>

LastUpdatedChanged ==
    \E id \in LocIds, w \in Watermarks :
        LET r == last_updated_changed(db, id, w)
        IN  /\ db' = r.db
            /\ last' = Call("last_updated_changed", id, w, r)
            /\ UNCHANGED <<batch, pageVars, mainVars, sup, calc>>

AddLocationIfMissing ==
    \E id \in LocIds, info \in Infos :
        LET r == add_location_if_missing(db, LocationInfo(id, info))
        IN  /\ db' = r.db
            /\ last' = Call("add_location_if_missing", id, info, r)
            /\ UNCHANGED <<batch, pageVars, mainVars, sup, calc>>

Next == UpdateLocation \/ LastUpdatedChanged \/ AddLocationIfMissing

Spec == Init /\ [][Next]_vars

OtherRows(tables, id) == {r \in tables[LOCATION_TABLE] : r[1] # id}

\* C1: for a location that has a row, last_updated_changed(id, w) with w other
\* than the stored watermark returns True; a call that immediately follows one
\* with the same id and w that returned True returns False; after either call
\* the stored watermark is w.
C1_IdempotentWatermark ==
    [][(last'.op = "last_updated_changed" /\ HasLocation(db, last'.id)) =>
        /\ last'.ok
        /\ StoredMark(db', last'.id) = last'.arg
        /\ (StoredMark(db, last'.id) # last'.arg => last'.ret)
        /\ (last'.again => ~last'.ret)]_vars

\* C1 witness: a second call with the same watermark has returned False
C1_Witness ==
    /\ last.op = "last_updated_changed" /\ last.ok /\ last.again /\ ~last.ret
    /\ StoredMark(db, last.id) = last.arg

\* C3 as stated: add_location_if_missing on a location that has a row succeeds
\* and leaves the stored watermark as it was.
C3_Original ==
    [][(last'.op = "add_location_if_missing" /\ HasLocation(db, last'.id)) =>
        /\ last'.ok
        /\ StoredMark(db', last'.id) = StoredMark(db, last'.id)]_vars

\* C10: update_location on an id that has a row sets name, region, latitude and
\* longitude and keeps the stored watermark; on an id without a row it creates
\* the row with a NULL watermark; no other row and no other table changes.
C10_UpdateLocationFrame ==
    [][last'.op = "update_location" =>
        /\ last'.ok
        /\ HasLocation(db', last'.id)
        /\ LocationOf(db', last'.id) =
              LocationRow(last'.id, last'.arg,
                          IF HasLocation(db, last'.id)
                          THEN StoredMark(db, last'.id) ELSE NULL)
        /\ OtherRows(db', last'.id) = OtherRows(db, last'.id)
        /\ \A t \in DataTables : db'[t] = db[t]]_vars

\* C10 witness: update_location has changed the name of a location that has a
\* watermark, next to another location's row
C10_Witness ==
    /\ last.op = "update_location" /\ last.existed
    /\ StoredMark(db, last.id) # NULL
    /\ OtherRows(db, last.id) # {}

\* C11 as stated: last_updated_changed on an id that has no stored watermark,
\* its row holding NULL or there being no row, returns True and stores the
\* observed watermark; when the observed watermark is the stored one the
\* locations table is left as it was.
C11_Original ==
    [][last'.op = "last_updated_changed" =>
        /\ (StoredMark(db, last'.id) = NULL =>
                /\ last'.ok /\ last'.ret
                /\ StoredMark(db', last'.id) = last'.arg)
        /\ (StoredMark(db, last'.id) = last'.arg =>
                db'[LOCATION_TABLE] = db[LOCATION_TABLE])]_vars

-----------------------------------------------------------------------------
(* SpecBatch: one call of insert_or_replace_many on the hourly table *)

MaxBatch == 2      \* records of a batch

\* stores that update_location and process_json_data produce: location 1 has a
\* row, the other locations have none
Located(m) ==
    IF m = NULL THEN update_location(EmptyDb, 1, 1).db
    ELSE last_updated_changed(update_location(EmptyDb, 1, 1).db, 1, m).db
Filled(m) ==
    process_json_data(Located(m), 1, MakePage(1, m, MaxDays, 0, "none").json).db

BatchStores == {Located(NULL), Filled(1)}

\* the records a caller hands over: well-formed ones, for location 1 and for
\* locations without a row, one that cannot be bound, one that is a value short
RecordPool ==
    {WeatherRecord(loc, 3600, Report(i, w, "none")) :
        loc \in LocIds, i \in 1..MaxDays, w \in Watermarks}
    \cup {WeatherRecord(1, 3600, Report(1, 1, "hourly_object")),
          SubSeq(WeatherRecord(1, 3600, Report(1, 1, "none")), 1, 11)}

Batches == UNION {[1..n -> RecordPool] : n \in 1..MaxBatch}

InitBatch ==
    /\ db \in BatchStores /\ last = NoCall /\ batch = <<>>
    /\ InitPage /\ InitMain /\ InitSup /\ InitCalc

InsertOrReplaceMany ==
    /\ last.op = "none"
    /\ \E records \in Batches :
        LET r == insert_or_replace_many(db, TIME_TABLE, records)
        IN  /\ db' = r.db
            /\ batch' = records
            /\ last' = Call("insert_or_replace_many", 0, Len(records), r)
    /\ UNCHANGED <<pageVars, mainVars, sup, calc>>

NextBatch == InsertOrReplaceMany

SpecBatch == InitBatch /\ [][NextBatch]_vars

\* the rows a batch leaves when every statement of it ran: for each key the
\* last record of the batch with that key, and the old rows of the other keys
AllApplied(rows, table, records) ==
    {r \in rows : \A k \in 1..Len(records) :
                      Key(table, r) # Key(table, records[k])}
    \cup {records[k] : k \in {j \in 1..Len(records) :
              \A i \in (j + 1)..Len(records) :
                  Key(table, records[i]) # Key(table, records[j])}}

\* C4: insert_or_replace_many is atomic per call: when the statement of some
\* record of the batch fails, the committed store after the call is the store
\* before it; when none fails, all records are there together.
C4_BatchAtomic ==
    [][last'.op = "insert_or_replace_many" =>
        IF \E k \in 1..Len(batch') : ~StatementOk(db, TIME_TABLE, batch'[k])
        THEN ~last'.ok /\ db' = db
        ELSE /\ last'.ok
             /\ db'[TIME_TABLE] = AllApplied(db[TIME_TABLE], TIME_TABLE, batch')
             /\ \A t \in Tables \ {TIME_TABLE} : db'[t] = db[t]]_vars

\* C4 witness: a batch whose first record is a new, well-formed row and whose
\* second record failed; the first is not in the table
C4_Witness ==
    /\ last.op = "insert_or_replace_many" /\ ~last.ok
    /\ Len(batch) >= 2
    /\ StatementOk(db, TIME_TABLE, batch[1])
    /\ batch[1] \notin db[TIME_TABLE]

-----------------------------------------------------------------------------
(* SpecSeq: insert_or_replace_many called again and again on the hourly or on *)
(* the daily table.  calc holds what the callers saw: table, the table        *)
(* written to; latest, the records of the committed batches, for each key the *)
(* one handed over last; replaced, whether some key was written with one      *)
(* record and later with a different one.                                     *)

\* the records the callers hand over: well-formed ones for location 1, one for
\* a location without a row, one that cannot be bound
SeqPool(table) ==
    IF table = TIME_TABLE
    THEN {WeatherRecord(1, 3600, Report(i, w, "none")) :
              i \in 1..MaxDays, w \in Watermarks}
         \cup {WeatherRecord(2, 3600, Report(1, 1, "none")),
               WeatherRecord(1, 3600, Report(1, 1, "hourly_object"))}
    ELSE {DayRecord(1, 3600, Day(i, w, "none")) :
              i \in 1..MaxDays, w \in Watermarks}
         \cup {DayRecord(2, 3600, Day(1, 1, "none")),
               DayRecord(1, 3600, Day(1, 1, "daily_object"))}

SeqBatches(table) == UNION {[1..n -> SeqPool(table)] : n \in 1..MaxBatch}

SeqStores == {Located(NULL)} \cup {Filled(m) : m \in Watermarks}

InitSeq ==
    /\ db \in SeqStores /\ last = NoCall /\ batch = <<>>
    /\ \E t \in {TIME_TABLE, DAY_TABLE} :
          calc = [op |-> "seq", table |-> t, latest |-> db[t],
                  replaced |-> FALSE]
    /\ InitPage /\ InitMain /\ InitSup

\* a committed batch overwrites a row with another record
Overwrites(rows, table, records) ==
    \E x \in rows : \E k \in 1..Len(records) :
        Key(table, x) = Key(table, records[k]) /\ x # records[k]

WriteBatch ==
    \E records \in SeqBatches(calc.table) :
        LET r == insert_or_replace_many(db, calc.table, records)
        IN  /\ db' = r.db
            /\ last' = Call("insert_or_replace_many", 0, 0, r)
            /\ calc' = IF ~r.ok THEN calc
                       ELSE [calc EXCEPT
                               !.latest = AllApplied(@, calc.table, records),
                               !.replaced = @ \/ Overwrites(
                                   calc.latest, calc.table, records)]
            /\ UNCHANGED <<batch, pageVars, mainVars, sup>>

NextSeq == WriteBatch

SpecSeq == InitSeq /\ [][NextSeq]_vars

\* C12: after any sequence of insert_or_replace_many calls on the hourly (or
\* daily) table there is at most one row per (location_id, timestamp), and
\* that row is, in every column, the record with that key written last.
C12_LastWriteWins ==
    calc.op = "seq" =>
        /\ \A r1, r2 \in db[calc.table] :
              Key(calc.table, r1) = Key(calc.table, r2) => r1 = r2
        /\ db[calc.table] = calc.latest

\* C12 witness: a key written twice with different records while another key
\* holds a row too
C12_Witness ==
    /\ calc.op = "seq"
    /\ calc.replaced
    /\ Cardinality(db[calc.table]) >= 2
    /\ ~last.ok

-----------------------------------------------------------------------------
(* SpecYear: extract_warning_text_date on "<weekday> <day> <month> 14:00", on *)
(* every day of MaxYears years, for every day number and month name.          *)

MaxYears == 2      \* the years 2024 .. 2023 + MaxYears of dt.date.today()

Todays ==
    {d \in [year : 2024..(2023 + MaxYears), month : 1..12, day : 1..31] :
        ValidDate(d.year, d.month, d.day)}

YearTexts ==
    {<<Word(0), Number(d), Month(m), Time(14, 0)>> : d \in 1..31, m \in 1..12}

NoDate ==
    [year |-> NULL, month |-> NULL, day |-> NULL, hour |-> NULL,
     minute |-> NULL]

InitYear ==
    /\ \E text \in YearTexts, today \in Todays :
          calc = [op |-> "extract", text |-> text, today |-> today,
                  done |-> FALSE, ok |-> FALSE, date |-> NoDate]
    /\ InitStore /\ InitPage /\ InitMain /\ InitSup

ExtractWarningTextDate ==
    /\ calc.op = "extract" /\ ~calc.done
    /\ calc' = IF DateRaises(calc.text, calc.today)
               THEN [calc EXCEPT !.done = TRUE]
               ELSE [calc EXCEPT
                       !.done = TRUE, !.ok = TRUE,
                       !.date = extract_warning_text_date(calc.text,
                                                          calc.today)]
    /\ UNCHANGED <<storeVars, pageVars, mainVars, sup>>

NextYear == ExtractWarningTextDate

SpecYear == InitYear /\ [][NextYear]_vars

\* the days from date(current_year, month, day) of the text to today
DaysSince(c) ==
    DayOfYear(c.today.year, c.today.month, c.today.day)
        - DayOfYear(c.today.year, c.text[3].a, c.text[2].a)

\* C13 as stated: the year is current_year + 1 exactly when the absolute
\* number of days between today and date(current_year, month, day) exceeds
\* 180, and current_year otherwise.
C13_Original ==
    (calc.op = "extract" /\ calc.done /\ calc.ok) =>
        calc.date.year =
            IF (IF DaysSince(calc) < 0 THEN -DaysSince(calc)
                ELSE DaysSince(calc)) > 180
            THEN calc.today.year + 1 ELSE calc.today.year

\* C13 amended: the year is current_year + 1 exactly when today is more than
\* 180 days after date(current_year, month, day), and current_year otherwise,
\* also when that date is more than 180 days after today.
C13_SignedDifference ==
    (calc.op = "extract" /\ calc.done /\ calc.ok) =>
        calc.date.year =
            IF DaysSince(calc) > 180
            THEN calc.today.year + 1 ELSE calc.today.year

\* C13 witness: "3 January" read on 2024-12-20 is of 2025
C13_Witness ==
    /\ calc.op = "extract" /\ calc.done /\ calc.ok
    /\ calc.today = [year |-> 2024, month |-> 12, day |-> 20]
    /\ calc.text[2].a = 3 /\ calc.text[3].a = 1
    /\ calc.date.year = 2025 /\ calc.date.month = 1 /\ calc.date.day = 3

-----------------------------------------------------------------------------
(* SpecParse: extract_warning_text_date on every text of up to MaxParts parts *)
(* of a small vocabulary, on two days.                                        *)

MaxParts == 4      \* parts of a text

Vocabulary ==
    {Word(0), Number(3), Number(31), Month(2), Month(10), MonthComma(10),
     Time(14, 0), Time(24, 0), Colons}

ParseTexts == UNION {[1..n -> Vocabulary] : n \in 0..MaxParts}

ParseDays ==
    {[year |-> 2024, month |-> 11, day |-> 20],
     [year |-> 2024, month |-> 12, day |-> 20]}

InitParse ==
    /\ \E text \in ParseTexts, today \in ParseDays :
          calc = [op |-> "extract", text |-> text, today |-> today,
                  done |-> FALSE, ok |-> FALSE, date |-> NoDate]
    /\ InitStore /\ InitPage /\ InitMain /\ InitSup

NextParse == ExtractWarningTextDate

SpecParse == InitParse /\ [][NextParse]_vars

\* the text is "<word> <number> <third> <time>", third of the given kind
ProseFormat(text, third) ==
    /\ Len(text) = 4
    /\ text[1].kind = "word" /\ text[2].kind = "number"
    /\ text[3].kind = third /\ text[4].kind = "time"

\* the datetime returned has the day, month, hour and minute of the text
ReadsProse(c) ==
    /\ c.ok
    /\ c.date.day = c.text[2].a /\ c.date.month = c.text[3].a
    /\ c.date.hour = c.text[4].a /\ c.date.minute = c.text[4].b

MatchesPattern(text) ==
    /\ \E i \in 1..Len(text) : text[i].kind = "month"
    /\ \E i \in 1..Len(text) : text[i].kind = "time"
    /\ \A i \in 1..Len(text) :
          text[i].kind = "month" => (i > 1 /\ text[i - 1].kind = "number")

\* C15 as stated: a text that does not match the expected pattern (no month
\* name, no time, or a month name without a day number right before it, the
\* month name as first part included) makes extract_warning_text_date raise.
C15_Original ==
    (calc.op = "extract" /\ calc.done /\ ~MatchesPattern(calc.text)) =>
        ~calc.ok

-----------------------------------------------------------------------------
(* SpecWind: process_json_data on a forecast of one report, for gust speeds   *)
(* and sustained speeds around GUSTS_MPH.                                     *)

MaxGap == 3        \* speeds up to MaxGap mph from GUSTS_MPH, and 10 mph

Gusts == (GUSTS_MPH - MaxGap)..(GUSTS_MPH + MaxGap)
Speeds == {10} \cup Gusts

WindJson(gust, speed) ==
    [MakePage(1, 1, 1, 0, "none").json EXCEPT
        !.forecasts[1].reports[1].gustSpeedMph = gust,
        !.forecasts[1].reports[1].windSpeedMph = speed]

InitWind ==
    /\ db = Located(1) /\ last = NoCall /\ batch = <<>>
    /\ \E g \in Gusts, s \in Speeds :
          calc = [op |-> "wind", gust |-> g, speed |-> s, done |-> FALSE]
    /\ InitPage /\ InitMain /\ InitSup

ProcessReport ==
    /\ calc.op = "wind" /\ ~calc.done
    /\ db' = process_json_data(db, 1, WindJson(calc.gust, calc.speed)).db
    /\ calc' = [calc EXCEPT !.done = TRUE]
    /\ UNCHANGED <<last, batch, pageVars, mainVars, sup>>

NextWind == ProcessReport

SpecWind == InitWind /\ [][NextWind]_vars

\* C18: the wind speed stored for an hourly report with gust speed g and
\* sustained speed s is g when g >= 40 and s when g < 40; g = 39, s = 10
\* stores 10 and g = 40, s = 10 stores 40.
C18_WindSpeedSelection ==
    (calc.op = "wind" /\ calc.done) =>
        /\ Cardinality(db[TIME_TABLE]) = 1
        /\ \A r \in db[TIME_TABLE] :
              /\ r[6] = IF calc.gust >= 40 THEN calc.gust ELSE calc.speed
              /\ (calc.gust = 39 /\ calc.speed = 10 => r[6] = 10)
              /\ (calc.gust = 40 /\ calc.speed = 10 => r[6] = 40)

\* C18 witness: gust 40, sustained 10, and 40 is stored
C18_Witness ==
    /\ calc.op = "wind" /\ calc.done
    /\ calc.gust = 40 /\ calc.speed = 10
    /\ \E r \in db[TIME_TABLE] : r[6] = 40

-----------------------------------------------------------------------------
(* SpecPage: lines 251-257 of get.main for the page of location 1.            *)
(* In get.main line 250 raises on every call (add_location_if_missing hands   *)
(* five values to the six-column locations table, see SpecMain), so these     *)
(* lines are run here as they are written, from the stores that               *)
(* update_location, last_updated_changed and process_json_data produce.       *)

PageStores ==
    {EmptyDb} \cup {Located(m) : m \in {NULL} \cup Watermarks}
              \cup {Filled(m) : m \in Watermarks}

InitPageSpec ==
    /\ db \in PageStores /\ last = NoCall /\ batch = <<>>
    /\ page \in {p \in PagesOf(1) : p.has_script}
    /\ step = "check" /\ snap = db /\ verdict = "none" /\ wrote = {}
    /\ InitMain /\ InitSup /\ InitCalc

\* lines 251-252, 256-257
ChangeCheck ==
    /\ step = "check"
    /\ LET r == last_updated_changed(db, page.location_id, page.json.lastUpdated)
       IN  /\ db' = r.db
           /\ verdict' = IF ~r.ok THEN "none"
                         ELSE IF r.ret THEN "changed" ELSE "unchanged"
           /\ step' = IF ~r.ok THEN "raised"
                      ELSE IF r.ret THEN "json" ELSE "done"
    /\ UNCHANGED <<last, batch, page, snap, wrote, mainVars, sup, calc>>

\* line 254
ProcessJson ==
    /\ step = "json"
    /\ LET r == process_json_data(db, page.location_id, page.json)
       IN  /\ db' = r.db
           /\ wrote' = wrote \cup r.wrote
           /\ step' = IF r.ok THEN "warnings" ELSE "raised"
    /\ UNCHANGED <<last, batch, page, snap, verdict, mainVars, sup, calc>>

\* line 255
AddWarnings ==
    /\ step = "warnings"
    /\ LET r == add_weather_warnings(db, page.location_id, page.soup)
       IN  /\ db' = r.db
           /\ wrote' = wrote \cup r.wrote
           /\ step' = IF r.ok THEN "done" ELSE "raised"
    /\ UNCHANGED <<last, batch, page, snap, verdict, mainVars, sup, calc>>

NextPage == ChangeCheck \/ ProcessJson \/ AddWarnings

SpecPage == InitPageSpec /\ [][NextPage]_vars

DataUnchanged == \A t \in DataTables : db[t] = snap[t]

\* C2 as stated, for a page none of whose records is malformed: once the
\* location is dealt with, the hourly, daily and warning tables have been
\* written for it if and only if the change detector returned True, and when
\* it returned False none of the three is modified.
C2_Original ==
    (step \in {"done", "raised"} /\ ~PageMalformed(page)) =>
        /\ (verdict = "changed") <=> (wrote = DataTables)
        /\ (verdict = "unchanged") => (wrote = {} /\ DataUnchanged)

\* C5 as stated: when a record of the page is malformed, processing the page
\* fails as a whole and none of the three tables holds rows of that fetch.
C5_Original ==
    (step \in {"done", "raised"} /\ verdict = "changed" /\ PageMalformed(page)) =>
        (step = "raised" /\ DataUnchanged)

\* C19: for a forecast of N >= 1 day entries process_json_data stores N - 1
\* daily records, one for each entry but the first and none for the first
\* whatever its summary holds, and the hourly reports of every entry, the
\* first included.
C19_DailySuppression ==
    DAY_TABLE \in wrote =>
        LET f == page.json.forecasts
            loc == page.location_id
        IN  /\ \A i \in 2..Len(f) :
                  \E r \in db[DAY_TABLE] :
                      /\ r[1] = loc /\ r[2] = f[i].summary.localDate * 86400
                      /\ r[4] = f[i].summary.maxTempC
            /\ \A r \in db[DAY_TABLE] :
                  (r[1] = loc /\ r[2] = f[1].summary.localDate * 86400) =>
                      r \in snap[DAY_TABLE]
            /\ Cardinality({r \in db[DAY_TABLE] :
                    /\ r[1] = loc
                    /\ \E i \in 1..Len(f) :
                          r[2] = f[i].summary.localDate * 86400})
                   = Len(f) - 1
            /\ \A i \in 1..Len(f) :
                  \A k \in 1..Len(f[i].reports) :
                      \E r \in db[TIME_TABLE] :
                          /\ r[1] = loc
                          /\ r[2] = f[i].reports[k].localDate * 86400
                                      + f[i].reports[k].timeslot * 3600
                          /\ r[4] = f[i].reports[k].temperatureC

\* C19 witness: a forecast of several entries, the first with a summary that
\* lacks a key, has been stored: its hourly report is there, its day is not
C19_Witness ==
    /\ DAY_TABLE \in wrote
    /\ Len(page.json.forecasts) >= 2
    /\ DayMalformed(page.json.forecasts[1].summary)
    /\ \E r \in db[TIME_TABLE] : r[2] = 86400 /\ r \notin snap[TIME_TABLE]
    /\ \A r \in db[DAY_TABLE] : r[2] # 86400

\* the text contains the literal "GMT"
ContainsGMT(text) == \E i \in 1..Len(text) : text[i] = Word(GMT_WORD)

\* C16 as stated: every warning record that add_weather_warnings writes has
\* the eight fields of the warnings table, its UTC offset being 0 seconds when
\* the issued-at text contains "GMT" and 3600 seconds otherwise.
C16_Original ==
    (step \in {"done", "raised"} /\ verdict = "changed"
         /\ ~PageMalformed(page)) =>
        \A k \in 1..Len(page.soup) :
            \E r \in db[WARNING_TABLE] :
                /\ Len(r) = Columns(WARNING_TABLE)
                /\ r[1] = page.location_id
                /\ r[3] = page.soup[k].weather_type
                /\ r[7] = IF ContainsGMT(page.soup[k].issued_at)
                          THEN 0 ELSE 3600

-----------------------------------------------------------------------------
(* SpecWarn: data.get_future_warnings on a warnings table that holds a row of *)
(* eight values, stored through insert_or_replace_many.                       *)

MaxHour == 4       \* warnings start and end, and queries are made, at the
                   \* hours 0..MaxHour

\* the module-level names of get.py that data.py looks up
get_names ==
    {"GUSTS_MPH", "VISIBILITIES", "VISIBILITIES_REVERSED", "WEATHER_TYPES",
     "WARNING_LEVELS", "PRESSURE_OFFSET", "MONTHS", "MAX_REQUEST_ATTEMPTS"}

\* get_future_warnings(location_id) when time.time() is current_timestamp:
\* the rows the query selects; for a non-empty selection the list
\* comprehension looks up get.WARNINGS_REVERSED and raises AttributeError
get_future_warnings(tables, location_id, current_timestamp) ==
    LET records == {r \in tables[WARNING_TABLE] :
                       r[1] = location_id /\ r[6] - r[7] > current_timestamp}
    IN  IF records # {} /\ "WARNINGS_REVERSED" \notin get_names
        THEN [ok |-> FALSE, listed |-> {}, active |-> {}]
        ELSE [ok |-> TRUE, listed |-> records,
              active |-> {r \in records : current_timestamp >= r[5] - r[7]}]

WarnTimes == {h * 3600 : h \in 0..MaxHour}

\* (location_id, level, weather_type, issued, start, end, time_zone_offset,
\* description)
WarningRows ==
    {<<1, 0, 1, 0, start, end, offset, 1>> :
        start \in WarnTimes, end \in WarnTimes, offset \in {0, 3600}}

WarnStores ==
    {Located(1)}
    \cup {insert_or_replace_many(Located(1), WARNING_TABLE, <<r>>).db :
             r \in {x \in WarningRows : x[5] < x[6]}}

InitWarn ==
    /\ db \in WarnStores /\ last = NoCall /\ batch = <<>>
    /\ InitCalc /\ InitPage /\ InitMain /\ InitSup

GetFutureWarnings ==
    \E id \in LocIds, now \in WarnTimes :
        LET r == get_future_warnings(db, id, now)
        IN  /\ calc' = [op |-> "warnings", id |-> id, now |-> now,
                        ok |-> r.ok, listed |-> r.listed,
                        active |-> r.active]
            /\ UNCHANGED <<storeVars, pageVars, mainVars, sup>>

NextWarn == GetFutureWarnings

SpecWarn == InitWarn /\ [][NextWarn]_vars

\* C17 as stated: a stored warning evaluates as active at the reference time
\* T exactly when start - offset <= T < end - offset.
C17_Original ==
    calc.op = "warnings" =>
        /\ calc.ok
        /\ \A r \in db[WARNING_TABLE] :
              r[1] = calc.id =>
                  ((r \in calc.active) <=>
                      (r[5] - r[7] <= calc.now /\ calc.now < r[6] - r[7]))

-----------------------------------------------------------------------------
(* SpecMain: get.main *)

MaxConfig == 2     \* entries of location_ids in download.json
MaxRequests == 5   \* requests followed for one location in one pass

\* _remove_duplicates(array): the first occurrences, in order
RECURSIVE RemoveDuplicatesFrom(_, _, _)
RemoveDuplicatesFrom(array, i, uniques) ==
    IF i > Len(array) THEN uniques
    ELSE IF \E j \in 1..Len(uniques) : uniques[j] = array[i]
         THEN RemoveDuplicatesFrom(array, i + 1, uniques)
         ELSE RemoveDuplicatesFrom(array, i + 1, Append(uniques, array[i]))
remove_duplicates(array) == RemoveDuplicatesFrom(array, 1, <<>>)

\* the except block with the test made before the decrement
on_request_exception_test_first(att) ==
    [attempts |-> att - 1, reraise |-> att = 0, sleep |-> att # 0]

\* lines 242-246: attempts -= 1; if not attempts: raise e; time.sleep(1)
on_request_exception(att) ==
    [attempts |-> att - 1, reraise |-> att - 1 = 0, sleep |-> att - 1 # 0]

\* an exception caught around the body of the for loop, the loop going on
after_failure_continue(i, n) ==
    IF i < n THEN [pc |-> "request", idx |-> i + 1]
    ELSE [pc |-> "sleeping", idx |-> i]

\* nothing in main catches what lines 245-255 raise: the exception leaves main
after_failure(i, n) == [pc |-> "raised", idx |-> i]

\* lines 247-257 for the page of one location
main_body(tables, location_id, p) ==
    IF ~p.has_script
    THEN [ok |-> FALSE, kind |-> "extraction", db |-> tables,
          verdict |-> "none", wrote |-> {}]
    ELSE
    LET a == add_location_if_missing(tables, p.json.location)
        c == last_updated_changed(a.db, location_id, p.json.lastUpdated)
        j == process_json_data(c.db, location_id, p.json)
        w == add_weather_warnings(j.db, location_id, p.soup)
    IN  IF ~a.ok
        THEN [ok |-> FALSE, kind |-> "storage", db |-> a.db,
              verdict |-> "none", wrote |-> {}]
        ELSE IF ~c.ok
        THEN [ok |-> FALSE, kind |-> "storage", db |-> c.db,
              verdict |-> "none", wrote |-> {}]
        ELSE IF ~c.ret
        THEN [ok |-> TRUE, kind |-> "", db |-> c.db,
              verdict |-> "unchanged", wrote |-> {}]
        ELSE IF ~j.ok
        THEN [ok |-> FALSE, kind |-> j.kind, db |-> j.db,
              verdict |-> "changed", wrote |-> j.wrote]
        ELSE [ok |-> w.ok, kind |-> w.kind, db |-> w.db,
              verdict |-> "changed", wrote |-> j.wrote \cup w.wrote]

Configs == UNION {[1..n -> LocIds] : n \in 1..MaxConfig}

\* the stores a pass can find: no row, or rows that update_location and
\* last_updated_changed left
MainStores ==
    {EmptyDb} \cup {Located(m) : m \in {NULL} \cup Watermarks}

InitMainSpec ==
    /\ db \in MainStores /\ last = NoCall /\ batch = <<>>
    /\ InitPage /\ InitSup /\ InitCalc
    /\ pc = "start" /\ config \in Configs /\ ids = <<>> /\ idx = 0
    /\ attempts = 0 /\ requests = 0 /\ raises = 0 /\ pauses = 0 /\ exc = 0
    /\ passNo = 0 /\ failed = ""

\* lines 227-235: create_missing_tables leaves an existing store as it is; a
\* pass begins with the first location
BeginPass ==
    /\ pc \in {"start", "sleeping"}
    /\ ids' = remove_duplicates(config)
    /\ idx' = 1
    /\ attempts' = MAX_REQUEST_ATTEMPTS
    /\ requests' = 0 /\ raises' = 0 /\ pauses' = 0
    /\ passNo' = passNo + 1
    /\ pc' = "request"
    /\ page' = NoPage /\ verdict' = "none" /\ wrote' = {}
    /\ UNCHANGED <<storeVars, step, snap, config, exc, failed, sup, calc>>

\* line 238 raises
RequestRaises ==
    /\ pc = "request" /\ requests < MaxRequests
    /\ LET h == on_request_exception(attempts)
           f == after_failure(idx, Len(ids))
       IN  /\ requests' = requests + 1
           /\ raises' = raises + 1
           /\ attempts' = h.attempts
           /\ pauses' = IF h.sleep THEN pauses + 1 ELSE pauses
           /\ IF h.reraise
              THEN /\ failed' = "fetch" /\ exc' = requests + 1
                   /\ pc' = f.pc /\ idx' = f.idx
              ELSE UNCHANGED <<failed, exc, pc, idx>>
    /\ UNCHANGED <<storeVars, pageVars, config, ids, passNo, sup, calc>>

\* line 238 returns a response whose status_code is not 200: neither branch
\* of the try statement does anything, and the while loop goes round
RequestNot200 ==
    /\ pc = "request" /\ requests < MaxRequests
    /\ requests' = requests + 1
    /\ UNCHANGED <<storeVars, pageVars, pc, config, ids, idx, attempts, raises,
                   pauses, exc, passNo, failed, sup, calc>>

\* line 238 returns a 200 response: lines 240-241
Request200 ==
    /\ pc = "request" /\ requests < MaxRequests
    /\ requests' = requests + 1
    /\ page' \in PagesOf(ids[idx])
    /\ verdict' = "none" /\ wrote' = {}
    /\ pc' = "page"
    /\ UNCHANGED <<storeVars, step, snap, config, ids, idx, attempts, raises,
                   pauses, exc, passNo, failed, sup, calc>>

\* lines 247-257, then the next location (lines 232-235) or the end of the
\* pass (lines 258-259)
ProcessPage ==
    /\ pc = "page"
    /\ LET r == main_body(db, ids[idx], page)
           f == after_failure(idx, Len(ids))
       IN  /\ db' = r.db
           /\ verdict' = r.verdict
           /\ wrote' = r.wrote
           /\ IF ~r.ok
              THEN /\ failed' = r.kind
                   /\ pc' = f.pc /\ idx' = f.idx
                   /\ UNCHANGED <<attempts, requests, raises, pauses>>
              ELSE /\ failed' = failed
                   /\ IF idx < Len(ids)
                      THEN /\ idx' = idx + 1 /\ pc' = "request"
                           /\ attempts' = MAX_REQUEST_ATTEMPTS
                           /\ requests' = 0 /\ raises' = 0 /\ pauses' = 0
                      ELSE /\ pc' = "sleeping"
                           /\ UNCHANGED <<idx, attempts, requests, raises, pauses>>
    /\ UNCHANGED <<last, batch, step, page, snap, config, ids, exc, passNo, sup, calc>>

NextMain ==
    BeginPass \/ RequestRaises \/ RequestNot200 \/ Request200 \/ ProcessPage

SpecMain == InitMainSpec /\ [][NextMain]_vars

\* C6 as stated: at most 3 requests are made for one location in one pass,
\* whatever the outcomes; a response that is not 200 counts like an exception
\* and is followed by a pause like one.
C6_Original ==
    /\ requests <= 3
    /\ (pc = "request" => pauses = requests)

\* C7: when every request raises, exactly 3 requests are made, with a pause
\* after the first and after the second and none after the third, whose
\* exception leaves main; there is no fourth request.
C7_RetryExhaustion ==
    (raises = requests /\ pc \in {"request", "raised"}) =>
        /\ requests <= 3
        /\ pauses = (IF requests < 3 THEN requests ELSE 2)
        /\ (requests = 3 <=> pc = "raised")
        /\ (pc = "raised" => (failed = "fetch" /\ exc = 3))

\* C7 witness: the third request has raised
C7_Witness ==
    /\ pc = "raised" /\ failed = "fetch"
    /\ requests = 3 /\ raises = 3 /\ pauses = 2 /\ exc = 3

\* C8: a failure of the fetch, of the extraction or of the store for a location
\* leaves main at once, and after it no request is made, no row is written, no
\* other location is taken up and no pass is begun.
C8_FailureIsFatal ==
    [][/\ (failed' # "" => pc' = "raised")
       /\ (failed # "" =>
              UNCHANGED <<db, requests, idx, passNo, page, pc>>)]_vars

\* C8 witness: the store has failed for a location that is not the last of
\* the pass
C8_Witness ==
    /\ failed = "storage" /\ pc = "raised" /\ idx < Len(ids)

-----------------------------------------------------------------------------
(* SpecCadence: the timing of the loop of get.main, lines 228-231 and         *)
(* 258-259, for passes that end without an exception; the body of a pass is   *)
(* its duration.  Time is in whole seconds and passes only in the body of a   *)
(* pass and in time.sleep.  calc holds the clock, the locals start and stop,  *)
(* download_settings.refresh_seconds of the pass, and what an observer notes: *)
(* prev, the start of the pass before; slept, the last sleep; due, the sum of *)
(* the intervals of the passes made; late, whether a pass took longer than    *)
(* its interval.                                                              *)

MaxRefresh == 2    \* refresh_seconds of download.json: 0..MaxRefresh
MaxDuration == 3   \* seconds a pass takes: 0..MaxDuration
MaxCadence == 3    \* passes made

\* time.sleep for the whole interval, whatever the pass took
sleep_seconds_whole(refresh_seconds, start, stop) == refresh_seconds

\* line 259: max(0, download_settings.refresh_seconds - (stop - start))
sleep_seconds(refresh_seconds, start, stop) ==
    IF refresh_seconds - (stop - start) > 0
    THEN refresh_seconds - (stop - start) ELSE 0

InitCadence ==
    /\ calc = [op |-> "cadence", at |-> "top", clock |-> 0, start |-> 0,
               stop |-> 0, refresh_seconds |-> 0, prev |-> 0, slept |-> 0,
               due |-> 0, late |-> FALSE, passes |-> 0]
    /\ InitStore /\ InitPage /\ InitMain /\ InitSup

\* lines 229-231: start = timer(); get_download_settings accepts any
\* refresh_seconds >= 0
StartPass ==
    /\ calc.op = "cadence" /\ calc.at = "top" /\ calc.passes < MaxCadence
    /\ \E r \in 0..MaxRefresh :
          calc' = [calc EXCEPT !.at = "body", !.start = calc.clock,
                               !.refresh_seconds = r]
    /\ UNCHANGED <<storeVars, pageVars, mainVars, sup>>

\* lines 232-258: the locations are dealt with in d seconds; stop = timer()
EndPass ==
    /\ calc.op = "cadence" /\ calc.at = "body"
    /\ \E d \in 0..MaxDuration :
          calc' = [calc EXCEPT !.at = "sleep", !.clock = @ + d,
                               !.stop = calc.clock + d]
    /\ UNCHANGED <<storeVars, pageVars, mainVars, sup>>

\* line 259
Sleep ==
    /\ calc.op = "cadence" /\ calc.at = "sleep"
    /\ LET seconds == sleep_seconds(calc.refresh_seconds, calc.start,
                                    calc.stop)
       IN  calc' = [calc EXCEPT
                      !.at = "top", !.clock = @ + seconds,
                      !.slept = seconds, !.prev = calc.start,
                      !.due = @ + calc.refresh_seconds,
                      !.late = @ \/ (calc.stop - calc.start
                                         > calc.refresh_seconds),
                      !.passes = @ + 1]
    /\ UNCHANGED <<storeVars, pageVars, mainVars, sup>>

NextCadence == StartPass \/ EndPass \/ Sleep

SpecCadence == InitCadence /\ [][NextCadence]_vars

\* C20: after a pass of duration d with interval r the loop sleeps
\* max(0, r - d), never a negative time; the next pass starts max(r, d) after
\* the pass started; as long as no pass took longer than its interval, the
\* next pass starts at the sum of the intervals: no drift accumulates.
C20_Cadence ==
    (calc.op = "cadence" /\ calc.at = "top" /\ calc.passes > 0) =>
        LET r == calc.refresh_seconds
            d == calc.stop - calc.prev
        IN  /\ calc.slept >= 0
            /\ calc.slept = IF r - d > 0 THEN r - d ELSE 0
            /\ calc.clock - calc.prev = IF r > d THEN r ELSE d
            /\ (~calc.late => calc.clock = calc.due)

\* C20 witness: after several passes, the last longer than its interval, the
\* loop has slept 0 seconds and starts the next pass at once
C20_Witness ==
    /\ calc.op = "cadence" /\ calc.at = "top" /\ calc.passes >= 2
    /\ calc.stop - calc.prev > calc.refresh_seconds
    /\ calc.slept = 0 /\ calc.clock = calc.stop

-----------------------------------------------------------------------------
(* SpecSup: WeatherAutomation.start, _run and the process *)

MaxSupPasses == 3  \* passes of a loop that are told apart

\* self.exception is None, or the exception of get.main or of send.main
NoException == "None"

\* _run with a handler that logs and records nothing
run_except_log_only(exception, e) == exception

\* _run, lines 45-48: self.exception = e
run_except(exception, e) == e

\* sys.exit(code): the status the process ends with
ExitStatus(code) == code % 256

InitSupSpec ==
    /\ InitStore /\ InitPage /\ InitMain /\ InitCalc
    /\ sup = [main |-> "start", get |-> "unstarted", send |-> "unstarted",
              exception |-> NoException, status |-> NULL,
              getPasses |-> 0, sendPasses |-> 0]

\* lines 29-32
SupStartGet ==
    /\ sup.main = "start"
    /\ sup' = [sup EXCEPT !.main = "delay", !.get = "running"]
    /\ UNCHANGED <<storeVars, pageVars, mainVars, calc>>

\* lines 32-35, after time.sleep(SEND_START_DELAY)
SupStartSend ==
    /\ sup.main = "delay"
    /\ sup' = [sup EXCEPT !.main = "poll", !.send = "running"]
    /\ UNCHANGED <<storeVars, pageVars, mainVars, calc>>

\* lines 37-40: with self.exception None the thread sleeps and looks again
SupPoll ==
    /\ sup.main = "poll"
    /\ sup.exception # NoException
    /\ sup' = [sup EXCEPT !.main = "exited", !.status = ExitStatus(-1)]
    /\ UNCHANGED <<storeVars, pageVars, mainVars, calc>>

\* get.main ends a pass; a daemon thread ends with the process
GetPass ==
    /\ sup.main # "exited" /\ sup.get = "running"
    /\ sup.getPasses < MaxSupPasses
    /\ sup' = [sup EXCEPT !.getPasses = @ + 1]
    /\ UNCHANGED <<storeVars, pageVars, mainVars, calc>>

\* get.main raises: lines 43-48
GetRaises ==
    /\ sup.main # "exited" /\ sup.get = "running"
    /\ sup' = [sup EXCEPT !.get = "raised",
                          !.exception = run_except(sup.exception, "get")]
    /\ UNCHANGED <<storeVars, pageVars, mainVars, calc>>

SendPass ==
    /\ sup.main # "exited" /\ sup.send = "running"
    /\ sup.sendPasses < MaxSupPasses
    /\ sup' = [sup EXCEPT !.sendPasses = @ + 1]
    /\ UNCHANGED <<storeVars, pageVars, mainVars, calc>>

\* send.main raises: lines 43-48
SendRaises ==
    /\ sup.main # "exited" /\ sup.send = "running"
    /\ sup' = [sup EXCEPT !.send = "raised",
                          !.exception = run_except(sup.exception, "send")]
    /\ UNCHANGED <<storeVars, pageVars, mainVars, calc>>

NextSup ==
    SupStartGet \/ SupStartSend \/ SupPoll \/ GetPass \/ GetRaises
        \/ SendPass \/ SendRaises

\* the main thread is scheduled: it starts the second thread after its delay
\* and its polling loop comes round
SpecSup ==
    InitSupSpec /\ [][NextSup]_vars
        /\ WF_vars(SupStartGet \/ SupStartSend \/ SupPoll)

SomeLoopRaised == sup.get = "raised" \/ sup.send = "raised"

\* C9: when one of the two loops has raised, the process eventually ends with
\* a status other than 0; and the process never ends while neither has raised.
C9_SupervisorTerminates ==
    /\ [](sup.main = "exited" => (SomeLoopRaised /\ sup.status # 0))
    /\ (SomeLoopRaised ~> (sup.main = "exited" /\ sup.status # 0))

\* C9 witness: the process has ended on the exception of get.main, with
\* send.main still running
C9_Witness ==
    /\ sup.main = "exited" /\ sup.status = 255
    /\ sup.get = "raised" /\ sup.exception = "get" /\ sup.send = "running"

-----------------------------------------------------------------------------
(* SpecQuery: data.get_future_weather and data.get_future_conditions on     *)
(* stores whose rows were extracted under different UTC offsets.             *)

MaxSlot == 3       \* hourly rows at the hours 1..MaxSlot of day 0, daily rows
                   \* at the days 1..MaxSlot
MaxLimit == 2      \* the hours or days a caller asks for

\* A member of an enum.Enum class is equal to no int, whatever its value: the
\* member of value v is written as v above the base of its class.
Visibility(v) == 100 + v
WeatherType(v) == 200 + v

\* get.py line 80: member of Visibility -> the string (numbered as in
\* VISIBILITIES) that maps to it
VISIBILITIES_REVERSED ==
    [m \in {Visibility(VISIBILITIES[s]) : s \in DOMAIN VISIBILITIES} |->
        CHOOSE s \in DOMAIN VISIBILITIES : Visibility(VISIBILITIES[s]) = m]

\* get.py lines 81-108: member of WeatherType (values 0..30 without 4) -> its
\* string, the strings numbered 1..30 in the order of the dict
WEATHER_TYPES ==
    [m \in {WeatherType(v) : v \in (0..30) \ {4}} |->
        IF m - 200 < 4 THEN m - 200 + 1 ELSE m - 200]

\* ORDER BY timestamp ASC: within a location the timestamp is the rest of the
\* primary key, so the order is total
RECURSIVE OrderByTimestamp(_)
OrderByTimestamp(rows) ==
    IF rows = {} THEN <<>>
    ELSE LET first == CHOOSE r \in rows : \A q \in rows : r[2] <= q[2]
         IN  <<first>> \o OrderByTimestamp(rows \ {first})

\* WHERE location_id=? AND timestamp - time_zone_offset > ?
\* ORDER BY timestamp ASC LIMIT ?
SelectFuture(rows, location_id, current_timestamp, limit) ==
    LET selected == {r \in rows : r[1] = location_id
                                  /\ r[2] - r[3] > current_timestamp}
        ordered == OrderByTimestamp(selected)
    IN  SubSeq(ordered, 1, IF limit < Len(ordered) THEN limit ELSE Len(ordered))

\* dt.datetime.utcfromtimestamp
utcfromtimestamp(timestamp) ==
    [day |-> timestamp \div 86400, hour |-> (timestamp % 86400) \div 3600]

\* data.py lines 339-344: the WeatherInfo of a selected row
WeatherInfo(record) ==
    [date_time |-> utcfromtimestamp(record[2]), temperature |-> record[4],
     feels_like_temperature |-> record[5], wind_speed |-> record[6],
     wind_direction |-> record[7], humidity |-> record[8],
     precipitation_odds |-> record[9], pressure |-> record[10],
     visibility |-> VISIBILITIES_REVERSED[record[11]],
     weather_type |-> WEATHER_TYPES[record[12]]]

\* get_future_weather(location_id, hours) when time.time() is
\* current_timestamp: records is the result of fetchall; a lookup of a stored
\* code in a dict keyed by enum members raises KeyError
get_future_weather(tables, location_id, hours, current_timestamp) ==
    LET records == SelectFuture(tables[TIME_TABLE], location_id,
                                current_timestamp, hours)
    IN  IF \E k \in 1..Len(records) :
              \/ records[k][11] \notin DOMAIN VISIBILITIES_REVERSED
              \/ records[k][12] \notin DOMAIN WEATHER_TYPES
        THEN [ok |-> FALSE, records |-> records, infos |-> <<>>]
        ELSE [ok |-> TRUE, records |-> records,
              infos |-> [k \in 1..Len(records) |-> WeatherInfo(records[k])]]

\* dt.time(*map(int, text.split(":"))) of a stored "h:00"
time_of(h) == [hour |-> h, minute |-> 0]

\* data.py lines 359-364: the ConditionsInfo of a selected row
ConditionsInfo(record) ==
    [date |-> utcfromtimestamp(record[2]).day, max_temperature |-> record[4],
     min_temperature |-> record[5], sunrise |-> time_of(record[6]),
     sunset |-> time_of(record[7]), uv |-> record[8],
     pollution |-> record[9], pollen |-> record[10]]

\* get_future_conditions(location_id, days)
get_future_conditions(tables, location_id, days, current_timestamp) ==
    LET records == SelectFuture(tables[DAY_TABLE], location_id,
                                current_timestamp, days)
    IN  [ok |-> TRUE, records |-> records,
         infos |-> [k \in 1..Len(records) |-> ConditionsInfo(records[k])]]

\* the report of hour h that the source served: its pressure, visibility and
\* weather type vary with the hour
SourcePressure(h) == 1000 + h
SourceVisibility(h) == (h % 6) + 1
SourceReport(h) ==
    [Report(0, 1, "none") EXCEPT !.timeslot = h, !.pressure = SourcePressure(h),
                                !.visibility = SourceVisibility(h),
                                !.weatherType = h]

\* locations 1 and 2 have a row
TwoLocations == update_location(Located(NULL), 2, 1).db

\* for every hour, and for the day of the same number: no row, or the row of
\* location 1 or 2 extracted under the offset 0 or 3600
SlotChoices == {<<0, 0>>} \cup ({1, 2} \X {0, 3600})

QueryStore(a) ==
    LET slots == SelectSeq([h \in 1..MaxSlot |-> h], LAMBDA h : a[h][1] # 0)
        hourly == [k \in 1..Len(slots) |->
                      WeatherRecord(a[slots[k]][1], a[slots[k]][2],
                                    SourceReport(slots[k]))]
        daily == [k \in 1..Len(slots) |->
                     DayRecord(a[slots[k]][1], a[slots[k]][2],
                               Day(slots[k], 1, "none"))]
    IN  insert_or_replace_many(
            insert_or_replace_many(TwoLocations, TIME_TABLE, hourly).db,
            DAY_TABLE, daily).db

QueryStores == {QueryStore(a) : a \in [1..MaxSlot -> SlotChoices]}

\* reference times: the hours of day 0 and the hour before each midnight
QueryTimes ==
    {Timestamp(0, h) : h \in 0..MaxSlot}
    \cup {Timestamp(d, 0) - 3600 : d \in 1..MaxSlot}

InitQuery ==
    /\ db \in QueryStores /\ last = NoCall /\ batch = <<>>
    /\ InitCalc /\ InitPage /\ InitMain /\ InitSup

GetFutureWeather ==
    \E id \in LocIds, hours \in 1..MaxLimit, now \in QueryTimes :
        LET r == get_future_weather(db, id, hours, now)
        IN  /\ calc' = [op |-> "weather", id |-> id, n |-> hours, now |-> now,
                        ok |-> r.ok, records |-> r.records, infos |-> r.infos]
            /\ UNCHANGED <<storeVars, pageVars, mainVars, sup>>

GetFutureConditions ==
    \E id \in LocIds, days \in 1..MaxLimit, now \in QueryTimes :
        LET r == get_future_conditions(db, id, days, now)
        IN  /\ calc' = [op |-> "conditions", id |-> id, n |-> days,
                        now |-> now, ok |-> r.ok, records |-> r.records,
                        infos |-> r.infos]
            /\ UNCHANGED <<storeVars, pageVars, mainVars, sup>>

NextQuery == GetFutureWeather \/ GetFutureConditions

SpecQuery == InitQuery /\ [][NextQuery]_vars

\* the rows of the table a call reads that belong to its location and whose
\* offset-corrected time is after its reference time
FutureRows(c) ==
    {r \in db[IF c.op = "weather" THEN TIME_TABLE ELSE DAY_TABLE] :
        r[1] = c.id /\ r[2] - r[3] > c.now}

\* the selection of a call is the n earliest future rows (or all, if fewer)
\* in ascending offset-corrected order
EarliestInOrder(c) ==
    /\ Len(c.records) = (IF c.n < Cardinality(FutureRows(c))
                         THEN c.n ELSE Cardinality(FutureRows(c)))
    /\ \A k \in 1..Len(c.records) : c.records[k] \in FutureRows(c)
    /\ \A j, k \in 1..Len(c.records) :
          j < k => /\ c.records[j] # c.records[k]
                   /\ c.records[j][2] - c.records[j][3]
                         <= c.records[k][2] - c.records[k][3]
    /\ \A r \in FutureRows(c) :
          (\A k \in 1..Len(c.records) : c.records[k] # r) =>
              \A k \in 1..Len(c.records) :
                  c.records[k][2] - c.records[k][3] <= r[2] - r[3]

\* C21 as stated: get_future_weather(id, n) and get_future_conditions(id, n)
\* return exactly the n earliest records of the location (or all, if fewer)
\* whose offset-corrected time is after the reference time, in ascending
\* offset-corrected order, also when the rows carry different offsets; no row
\* of another location or at or before the reference time is returned.
C21_Original ==
    calc.op \in {"weather", "conditions"} =>
        /\ calc.ok
        /\ Len(calc.infos) = Len(calc.records)
        /\ EarliestInOrder(calc)
        /\ \A k \in 1..Len(calc.infos) :
              IF calc.op = "weather"
              THEN calc.infos[k].date_time
                      = utcfromtimestamp(calc.records[k][2])
              ELSE calc.infos[k].date
                      = utcfromtimestamp(calc.records[k][2]).day

\* C22 as stated: categorical codes round-trip through the store: for every
\* visibility string and every weather-type code the extractor stores,
\* get_future_weather succeeds and returns the display string of the code.
C22_Original ==
    calc.op = "weather" =>
        /\ calc.ok
        /\ \A k \in 1..Len(calc.infos) :
              /\ calc.infos[k].visibility
                    = SourceVisibility(calc.infos[k].date_time.hour)
              /\ calc.infos[k].weather_type
                    = WEATHER_TYPES[WeatherType(calc.infos[k].date_time.hour)]

\* C28 as stated: pressure round-trips through the store: for every hourly
\* report with source pressure p, the pressure get_future_weather returns for
\* that reading equals p.
C28_Original ==
    calc.op = "weather" =>
        /\ calc.ok
        /\ \A k \in 1..Len(calc.infos) :
              calc.infos[k].pressure
                  = SourcePressure(calc.infos[k].date_time.hour)

-----------------------------------------------------------------------------
(* SpecMain: the locations of a pass *)

\* the index of the first occurrence of x in array
FirstIndex(array, x) ==
    CHOOSE i \in 1..Len(array) :
        array[i] = x /\ \A j \in 1..(i - 1) : array[j] # x

\* C24 as stated: within one pass every distinct configured location id is
\* processed exactly once, one at a time, in the order of its first occurrence
\* in the configured list.  A pass is over when main sleeps or has raised; the
\* passes looked at are those in which no fetch failed and the page at hand is
\* well-formed.
C24_Original ==
    (/\ pc \in {"raised", "sleeping"} /\ failed # "fetch"
     /\ page.has_script /\ ~PageMalformed(page))
        => /\ pc = "sleeping"
           /\ idx = Len(ids)
           /\ \A id \in {config[i] : i \in 1..Len(config)} :
                 Cardinality({i \in 1..Len(ids) : ids[i] = id}) = 1
           /\ \A i, j \in 1..Len(ids) :
                 i < j => FirstIndex(config, ids[i]) < FirstIndex(config, ids[j])

-----------------------------------------------------------------------------
(* SpecPage: the warning rows of a page *)

\* the row of the warnings table holds the banner: its key (location, weather
\* type, issued) and its level, start, end and description
HoldsBanner(r, location_id, div) ==
    /\ r[1] = location_id
    /\ r[3] = div.weather_type
    /\ r[4] = adapt_datetime(extract_warning_text_date(div.issued_at, PageDay))
    /\ r[2] = WARNING_LEVELS[div.level]
    /\ r[5] = adapt_datetime(extract_warning_text_date(div.start, PageDay))
    /\ r[6] = adapt_datetime(extract_warning_text_date(div.end, PageDay))
    /\ r[Len(r)] = div.description

-----------------------------------------------------------------------------
(* SpecPage: the watermark and the batches of a fetch *)

\* C25 as stated: the stored watermark of a location equals the watermark w of
\* a fetch in which a change was detected only if the hourly, daily and warning
\* batches of that fetch have all been written; if extraction or a batch write
\* failed after the change was detected, a later pass that observes the same w
\* detects a change again.
C25_Original ==
    (step \in {"done", "raised"} /\ verdict = "changed") =>
        /\ StoredMark(db, page.location_id) = page.json.lastUpdated
              => wrote = DataTables
        /\ step = "raised" =>
              LET later == last_updated_changed(db, page.location_id,
                                                page.json.lastUpdated)
              IN  later.ok /\ later.ret

-----------------------------------------------------------------------------
(* SpecSup: the exception flag *)

\* C27 as stated: the flag is "first exception wins": once the exception of
\* one loop has been recorded, a later exception of the other loop never
\* overwrites it, under every interleaving of the two loop threads and the
\* polling thread.
C27_Original ==
    [][sup.exception # NoException => sup'.exception = sup.exception]_vars

-----------------------------------------------------------------------------
(* SpecSend: the loop of send.main.  Time is in whole seconds from the      *)
(* midnight before start-up and passes only where the code loads, sends or   *)
(* sleeps.  calc holds the loop: clock; last_sent_time; email_infos, the     *)
(* send times (minutes of the day) of each configuration; raised, whether    *)
(* an exception left main; and what an observer counted: sent, the emails    *)
(* of each configuration in each minute; examined, the passes made for each  *)
(* minute; first, the minute of start-up; slow, whether a pass took 60       *)
(* seconds or more.                                                          *)

MaxMinute == 2     \* the loop is followed through the minutes 0..MaxMinute
MaxEmail == 1      \* configurations of email.json

REFRESH_SECONDS == 45

\* the seconds of minute 0 at which the process starts, the seconds that
\* data.get_email_infos takes, and the seconds from start to stop
StartSeconds == {0, 30, 58}
LoadSeconds == {0, 20}
SendSeconds == {0, 10, 50, 70}

\* lines 297-300: now().time().replace(second=0, microsecond=0), as the
\* minute of the day
current_time_at(clock) == (clock \div 60) % 1440

\* line 302 with a test that never holds
already_sent_never(current_time, last_sent_time) == FALSE

\* line 302: current_time == last_sent_time
already_sent(current_time, last_sent_time) == current_time = last_sent_time

\* line 320: max(0, REFRESH_SECONDS - (stop - start))
delivery_sleep(start, stop) ==
    IF REFRESH_SECONDS - (stop - start) > 0
    THEN REFRESH_SECONDS - (stop - start) ELSE 0

\* data.get_email_infos: the times of a configuration are a list that is not
\* empty
EmailInfos ==
    UNION {[1..n -> (SUBSET (0..MaxMinute)) \ {{}}] : n \in 1..MaxEmail}

InitSend ==
    /\ InitStore /\ InitPage /\ InitMain /\ InitSup
    /\ \E s \in StartSeconds, e \in EmailInfos :
          calc = [op |-> "send", clock |-> s, last_sent_time |-> NULL,
                  email_infos |-> e, raised |-> FALSE,
                  sent |-> [k \in 1..Len(e) |-> [m \in 0..MaxMinute |-> 0]],
                  examined |-> [m \in 0..MaxMinute |-> 0],
                  first |-> current_time_at(s), slow |-> FALSE]

\* lines 297-304: the minute is the one of the last pass; time.sleep(1)
SkipSameMinute ==
    /\ calc.op = "send" /\ ~calc.raised
    /\ current_time_at(calc.clock) <= MaxMinute
    /\ already_sent(current_time_at(calc.clock), calc.last_sent_time)
    /\ calc' = [calc EXCEPT !.clock = @ + 1]
    /\ UNCHANGED <<storeVars, pageVars, mainVars, sup>>

\* lines 297-320: a pass in which nothing raises.  Every configuration whose
\* times hold the minute gets its email
DeliveryPass ==
    /\ calc.op = "send" /\ ~calc.raised
    /\ current_time_at(calc.clock) <= MaxMinute
    /\ ~already_sent(current_time_at(calc.clock), calc.last_sent_time)
    /\ \E load \in LoadSeconds, d \in SendSeconds :
          LET current_time == current_time_at(calc.clock)
              start == calc.clock + load
              stop == start + d
          IN  calc' = [calc EXCEPT
                  !.sent = [k \in DOMAIN @ |->
                              IF current_time \in calc.email_infos[k]
                              THEN [@[k] EXCEPT ![current_time] = @ + 1]
                              ELSE @[k]],
                  !.examined[current_time] = @ + 1,
                  !.last_sent_time = current_time,
                  !.slow = @ \/ (load + d >= 60),
                  !.clock = stop + delivery_sleep(start, stop)]
    /\ UNCHANGED <<storeVars, pageVars, mainVars, sup>>

\* lines 305-313: get_email_infos, get_location_info, generate_html_email or
\* send_email raises, and the exception leaves main
DeliveryRaises ==
    /\ calc.op = "send" /\ ~calc.raised
    /\ current_time_at(calc.clock) <= MaxMinute
    /\ ~already_sent(current_time_at(calc.clock), calc.last_sent_time)
    /\ calc' = [calc EXCEPT
                   !.examined[current_time_at(calc.clock)] = @ + 1,
                   !.raised = TRUE]
    /\ UNCHANGED <<storeVars, pageVars, mainVars, sup>>

NextSend == SkipSameMinute \/ DeliveryPass \/ DeliveryRaises

SpecSend == InitSend /\ [][NextSend]_vars

\* C26: for every email configuration and every minute that is one of its
\* send times, at most one email is sent during that occurrence of the
\* minute, whatever the passes take and whenever the loop wakes up.
C26_AtMostOneEmail ==
    calc.op = "send" =>
        \A k \in 1..Len(calc.email_infos) : \A m \in 0..MaxMinute :
            /\ calc.sent[k][m] <= 1
            /\ calc.sent[k][m] = 1 => m \in calc.email_infos[k]

\* C26 witness: an email was sent in a minute, and the loop woke up again in
\* that same minute
C26_Witness ==
    /\ calc.op = "send"
    /\ calc.last_sent_time # NULL
    /\ current_time_at(calc.clock) = calc.last_sent_time
    /\ calc.clock % 60 > 45
    /\ \E k \in 1..Len(calc.email_infos) :
          calc.sent[k][calc.last_sent_time] = 1

\* C29 as stated: provided every pass (loading the settings, generating and
\* sending the due emails) takes less than 60 seconds and no error occurs,
\* no minute is skipped: every minute from start-up to the one before the
\* present has been examined by exactly one pass, the present one by at most
\* one.
C29_Original ==
    (calc.op = "send" /\ ~calc.slow /\ ~calc.raised) =>
        \A m \in 0..MaxMinute :
            /\ (calc.first <= m /\ m < current_time_at(calc.clock))
                  => calc.examined[m] = 1
            /\ calc.examined[m] <= 1

====
